---- MODULE Spec2Model ----
(***************************************************************************)
(* Model of utils/jira_sync.py (src/jira_script_get.py): the batching      *)
(* helper _chunks, the remote status fetcher _fetch_status_for and the     *)
(* synchronisation driver sync_jira_statuses, run against a store of       *)
(* CurrentSwState rows, a store of JiraStatus rows and a remote tracker.   *)
(***************************************************************************)
EXTENDS Integers, Sequences, FiniteSets, TLC

VARIABLES
    CurrentSwState,  \* tracked rows: id -> [run_id, jira_ticket]
    JiraStatus,      \* status rows [id, cve_id, jira_status], in primary-key order
    jira,            \* version of the remote tracker's contents
    pc,              \* "idle", "loop" (in the batch loop) or "returned" (the call is over)
    run_id,          \* argument of the current / last run
    id_to_ticket,    \* the dict of line 121, in insertion order
    batch_no,        \* number of batches the generator has yielded so far
    to_create,       \* list of line 118
    to_update,       \* list of line 117
    queries,         \* calls of session.get in the run: the payload, whether the call
                     \* returned, and whether the response held a key not asked for
    outcome,         \* how the call ended: "noop", "complete" or "raised"
    store0,          \* JiraStatus as it was when the call started (JiraStatus when idle)
    synced,          \* run ids whose last run completed against this jira
    repeat,          \* the current run started with run_id in synced
    c_iterable,      \* _chunks: the input sequence
    c_size,          \* _chunks: the batch size
    c_out,           \* _chunks: the batches yielded
    c_done           \* _chunks: the generator is exhausted

vars == <<CurrentSwState, JiraStatus, jira, pc, run_id, id_to_ticket, batch_no,
          to_create, to_update, queries, outcome, store0, synced, repeat,
          c_iterable, c_size, c_out, c_done>>

syncVars == <<CurrentSwState, JiraStatus, jira, pc, run_id, id_to_ticket,
              batch_no, to_create, to_update, queries, outcome, store0,
              synced, repeat>>

chunkVars == <<c_iterable, c_size, c_out, c_done>>

-----------------------------------------------------------------------------
(* Bounds and program constants *)

BATCH_SIZE == 50

MaxRecords == 120

MaxLen == 4

MaxSize == 3

UntrackedKey == MaxRecords + 1

RunIds == {1, 2}

JiraVersions == {1, 2}

Sizes == {1, 2, BATCH_SIZE, BATCH_SIZE + 1, 2 * BATCH_SIZE + 1, MaxRecords}

\* The stores a behaviour can start from: a number of tracked rows and their
\* layout (see TrackedRow).
Layouts ==
    (Sizes \X {"plain", "mixed"}) \cup ({BATCH_SIZE + 1} \X {"runs"})

ChunkKeys == {1, 2}

-----------------------------------------------------------------------------
(* Ticket values.  A jira_ticket is NULL or a string; a string is modelled *)
(* by its stripped text (a key number, 0 for the empty text) and whether   *)
(* it carries surrounding whitespace.                                      *)

NULL == [null |-> TRUE]

Ticket(k, padded) == [key |-> k, padded |-> padded]

EmptyTicket == Ticket(0, FALSE)

strip(ticket) == ticket.key

Min(a, b) == IF a < b THEN a ELSE b

-----------------------------------------------------------------------------
(* _chunks: repeatedly take islice(it, size) until the slice is empty *)

\* Variant: only full batches are yielded, a trailing partial one is lost.
RECURSIVE chunksFullOnly(_, _)
chunksFullOnly(iterable, size) ==
    IF Len(iterable) < size \/ size = 0
    THEN <<>>
    ELSE <<SubSeq(iterable, 1, size)>>
         \o chunksFullOnly(SubSeq(iterable, size + 1, Len(iterable)), size)

RECURSIVE _chunks(_, _)
_chunks(iterable, size) ==
    LET chunk == SubSeq(iterable, 1, Min(size, Len(iterable)))
    IN  IF chunk = <<>>
        THEN <<>>
        ELSE <<chunk>> \o _chunks(SubSeq(iterable, Len(chunk) + 1, Len(iterable)), size)

RECURSIVE Concat(_)
Concat(ss) == IF ss = <<>> THEN <<>> ELSE Head(ss) \o Concat(Tail(ss))

RECURSIVE SeqsUpTo(_, _)
SeqsUpTo(S, n) ==
    IF n = 0 THEN {<<>>}
    ELSE LET shorter == SeqsUpTo(S, n - 1)
         IN  shorter \cup {Append(s, x) : s \in {t \in shorter : Len(t) = n - 1}, x \in S}

-----------------------------------------------------------------------------
(* The remote tracker *)

NoStatus == "<no status>"

Absent == "<absent>"

\* What the tracker holds for a key: Absent, an issue without a status
\* field, or the issue's status name.
JiraIssue(version, key) ==
    IF key = 0 \/ key = 8 THEN Absent
    ELSE IF version = 1
         THEN IF key = 7 THEN NoStatus ELSE "Open"
         ELSE IF key = 9 THEN NoStatus
              ELSE IF key % 2 = 1 THEN "Done" ELSE "Open"

-----------------------------------------------------------------------------
(* The stores *)

\* The rows a store of n tracked records holds, for each layout.
\* "plain": every row is of run 1 and has its own unpadded key.
\* "mixed": a NULL ticket, an empty ticket, a whitespace-only ticket, a
\* padded ticket that strips to the key of the last row, other padded
\* tickets.  "runs": as "mixed", with every tenth row of run 2.
TrackedRow(shape, n, i) ==
    IF shape = "plain"
    THEN [id |-> i, run_id |-> 1, jira_ticket |-> Ticket(i, FALSE)]
    ELSE [id |-> i,
          run_id |-> IF shape = "runs" /\ i % 10 = 5 THEN 2 ELSE 1,
          jira_ticket |-> CASE i = 1 -> NULL
                            [] i = 2 -> EmptyTicket
                            [] i = 3 -> Ticket(0, TRUE)
                            [] i = 4 -> Ticket(n, TRUE)
                            [] OTHER -> Ticket(i, i % 3 = 0)]

Range(s) == {s[i] : i \in 1..Len(s)}

\* Variant: the exclusion tests only for NULL.
QualifiesKeepsEmpty(state, rid) ==
    /\ state.run_id = rid
    /\ state.jira_ticket # NULL

\* CurrentSwState.objects.filter(run_id=run_id).exclude(null or exact "")
Qualifies(state, rid) ==
    /\ state.run_id = rid
    /\ ~(state.jira_ticket = NULL \/ state.jira_ticket = EmptyTicket)

states(rid) == SelectSeq(CurrentSwState, LAMBDA state : Qualifies(state, rid))

\* {state.id: state.jira_ticket.strip() for state in states}
IdToTicket(rid) ==
    LET sel == states(rid)
    IN  [i \in 1..Len(sel) |-> [id |-> sel[i].id, ticket |-> strip(sel[i].jira_ticket)]]

\* id_to_ticket.values()
values(d) == [i \in 1..Len(d) |-> d[i].ticket]

Batches == _chunks(values(id_to_ticket), BATCH_SIZE)

-----------------------------------------------------------------------------
(* _fetch_status_for *)

_build_jql(keys) == [keyIn |-> keys]

\* Variant: maxResults is the batch size limit, not the batch's length.
PayloadFixedMax(keys) ==
    [jql |-> _build_jql(keys), fields |-> "status", maxResults |-> BATCH_SIZE]

Payload(keys) == [jql |-> _build_jql(keys), fields |-> "status", maxResults |-> Len(keys)]

Issue(version, key) == [key |-> key, status |-> JiraIssue(version, key)]

\* The issues of a response: the requested keys the tracker holds, then
\* the issues of the unrequested keys `others` that it holds.
Issues(version, keys, others) ==
    LET held(ks) == SelectSeq(ks, LAMBDA k : JiraIssue(version, k) # Absent)
        unasked == SelectSeq(others, LAMBDA k : k \notin Range(keys))
        all == held(keys) \o held(unasked)
    IN  [i \in 1..Len(all) |-> Issue(version, all[i])]

\* The responses a successful call can deliver for a batch: the issues
\* asked for, alone or followed by two that may not have been asked for
\* (the first key of the mapping and a key no tracked row has).
Responses(version, keys, mapping) ==
    { Issues(version, keys, <<>>),
      Issues(version, keys, <<mapping[1].ticket, UntrackedKey>>) }

HoldsForeign(issues, keys) ==
    \E i \in 1..Len(issues) : issues[i].key \notin Range(keys)

\* Variant: the comprehension has no filter on the status field.
StatusMapUnfiltered(issues) ==
    LET last(k) == CHOOSE i \in 1..Len(issues) :
                      /\ issues[i].key = k
                      /\ \A j \in 1..Len(issues) : issues[j].key = k => j <= i
    IN  [k \in {issues[i].key : i \in 1..Len(issues)} |-> issues[last(k)].status]

\* {issue["key"]: issue["fields"]["status"]["name"] for issue in issues
\*  if issue.get("fields", {}).get("status")}
StatusMap(issues) ==
    LET withStatus == {i \in 1..Len(issues) : issues[i].status # NoStatus}
        last(k) == CHOOSE i \in withStatus :
                      /\ issues[i].key = k
                      /\ \A j \in withStatus : issues[j].key = k => j <= i
    IN  [k \in {issues[i].key : i \in withStatus} |-> issues[last(k)].status]

-----------------------------------------------------------------------------
(* The ORM calls *)

\* Variant: the call passes no defaults, a new row has a blank status.
get_or_create_no_defaults(store, cve_id, status_val) ==
    LET found == {i \in 1..Len(store) : store[i].cve_id = cve_id}
    IN  IF found = {}
        THEN LET obj == [id |-> Len(store) + 1, cve_id |-> cve_id, jira_status |-> ""]
             IN  [obj |-> obj, created |-> TRUE, store |-> Append(store, obj), exc |-> FALSE]
        ELSE [obj |-> store[CHOOSE i \in found : TRUE], created |-> FALSE,
              store |-> store, exc |-> FALSE]

\* Variant: a plain create, without the lookup by cve_id.
always_create(store, cve_id, status_val) ==
    LET obj == [id |-> Len(store) + 1, cve_id |-> cve_id, jira_status |-> status_val]
    IN  [obj |-> obj, created |-> TRUE, store |-> Append(store, obj), exc |-> FALSE]

\* JiraStatus.objects.get_or_create(cve_id=..., defaults={"jira_status": ...})
\* One row found is returned, none makes a new row with the defaults, more
\* than one raises MultipleObjectsReturned.
get_or_create(store, cve_id, status_val) ==
    LET found == {i \in 1..Len(store) : store[i].cve_id = cve_id}
    IN  IF found = {}
        THEN LET obj == [id |-> Len(store) + 1, cve_id |-> cve_id,
                         jira_status |-> status_val]
             IN  [obj |-> obj, created |-> TRUE, store |-> Append(store, obj), exc |-> FALSE]
        ELSE IF Cardinality(found) = 1
             THEN [obj |-> store[CHOOSE i \in found : TRUE], created |-> FALSE,
                   store |-> store, exc |-> FALSE]
             ELSE [obj |-> NULL, created |-> FALSE, store |-> store, exc |-> TRUE]

\* UPDATE ... WHERE id = obj.id for one object of a bulk update.
update_row(store, obj) ==
    IF obj.id \in 1..Len(store)
    THEN [store EXCEPT ![obj.id].jira_status = obj.jira_status]
    ELSE store

\* JiraStatus.objects.bulk_update(objs, ["jira_status"]): the row with the
\* primary key of an object takes its value; of several objects with one
\* primary key the first counts.  objs[lo..hi] are applied from the last
\* to the first, the range being halved to keep the evaluation shallow.
\* A table without rows has nothing to update.
RECURSIVE bulk_update_range(_, _, _, _)
bulk_update_range(store, objs, lo, hi) ==
    IF lo > hi \/ store = <<>> THEN store
    ELSE IF lo = hi THEN update_row(store, objs[lo])
    ELSE LET mid == (lo + hi) \div 2
         IN  bulk_update_range(bulk_update_range(store, objs, mid + 1, hi), objs, lo, mid)

bulk_update(store, objs) == bulk_update_range(store, objs, 1, Len(objs))

\* Variant: an existing row is saved at once instead of being queued only.
UpsertSavesNow(acc, entry, status_map) ==
    IF entry.ticket \notin DOMAIN status_map
    THEN acc
    ELSE LET status_val == status_map[entry.ticket]
             got == get_or_create(acc.store, entry.id, status_val)
             obj == [got.obj EXCEPT !.jira_status = status_val]
         IN  IF got.exc
             THEN [acc EXCEPT !.exc = TRUE]
             ELSE IF got.created
                  THEN [acc EXCEPT !.store = got.store,
                                   !.to_create = Append(@, got.obj)]
                  ELSE [acc EXCEPT !.store = [@ EXCEPT ![obj.id] = obj],
                                   !.to_update = Append(@, obj)]

\* Lines 133-145, the body of the scan for one entry of id_to_ticket.
Upsert(acc, entry, status_map) ==
    IF entry.ticket \notin DOMAIN status_map
    THEN acc
    ELSE LET status_val == status_map[entry.ticket]
             got == get_or_create(acc.store, entry.id, status_val)
         IN  IF got.exc
             THEN [acc EXCEPT !.exc = TRUE]
             ELSE IF got.created
                  THEN [acc EXCEPT !.store = got.store,
                                   !.to_create = Append(@, got.obj)]
                  ELSE [acc EXCEPT !.to_update =
                                       Append(@, [got.obj EXCEPT !.jira_status = status_val])]

\* Line 132: for state_id, ticket in id_to_ticket.items(), over the entries
\* lo..hi of the mapping in order (the range is halved to keep the
\* evaluation shallow); an exception ends the scan.
RECURSIVE Scan(_, _, _, _, _)
Scan(acc, mapping, lo, hi, status_map) ==
    IF lo > hi \/ acc.exc THEN acc
    ELSE IF lo = hi THEN Upsert(acc, mapping[lo], status_map)
    ELSE LET mid == (lo + hi) \div 2
         IN  Scan(Scan(acc, mapping, lo, mid, status_map), mapping, mid + 1, hi, status_map)

-----------------------------------------------------------------------------
(* sync_jira_statuses *)

\* _jira_session: the JIRA_BASE_URL of the environment without trailing
\* slashes; an empty one raises RuntimeError.
BaseUrls == {"", "https://jira.example.com/"}

rstrip_slash(url) == IF url = "https://jira.example.com/" THEN "https://jira.example.com" ELSE url

\* Lines 106-121: select the rows; return if there are none, else make the
\* session, build the mapping and enter the batch loop.
Start(rid, JIRA_BASE_URL) ==
    /\ pc = "idle"
    /\ run_id' = rid
    /\ store0' = JiraStatus
    /\ repeat' = (rid \in synced)
    /\ queries' = <<>>
    /\ to_create' = <<>>
    /\ to_update' = <<>>
    /\ batch_no' = 0
    /\ IF states(rid) = <<>>
       THEN /\ id_to_ticket' = <<>>
            /\ outcome' = "noop"
            /\ pc' = "returned"
       ELSE IF rstrip_slash(JIRA_BASE_URL) = ""
            THEN /\ id_to_ticket' = <<>>
                 /\ outcome' = "raised"
                 /\ pc' = "returned"
            ELSE /\ id_to_ticket' = IdToTicket(rid)
                 /\ outcome' = "running"
                 /\ pc' = "loop"
    /\ UNCHANGED <<CurrentSwState, JiraStatus, jira, synced>>
    /\ UNCHANGED chunkVars

\* Lines 124-157 for one batch whose fetch succeeds: the scan of the whole
\* mapping, and after the last batch the bulk update and the summary.
FetchOk ==
    /\ pc = "loop"
    /\ LET batch == Batches[batch_no + 1]
       IN  \E issues \in Responses(jira, batch, id_to_ticket) :
             LET status_map == StatusMap(issues)
                 acc == Scan([store |-> JiraStatus, to_create |-> to_create,
                              to_update |-> to_update, exc |-> FALSE],
                             id_to_ticket, 1, Len(id_to_ticket), status_map)
                 isLast == batch_no + 1 = Len(Batches)
             IN  /\ queries' = Append(queries, [payload |-> Payload(batch), ok |-> TRUE,
                                            foreign |-> HoldsForeign(issues, batch)])
                 /\ batch_no' = batch_no + 1
                 /\ to_create' = acc.to_create
                 /\ to_update' = acc.to_update
                 /\ IF acc.exc
                    THEN /\ JiraStatus' = acc.store
                         /\ outcome' = "raised"
                         /\ pc' = "returned"
                         /\ synced' = synced
                    ELSE IF isLast
                         THEN /\ JiraStatus' = bulk_update(acc.store, acc.to_update)
                              /\ outcome' = "complete"
                              /\ pc' = "returned"
                              /\ synced' = synced \cup {run_id}
                         ELSE /\ JiraStatus' = acc.store
                              /\ outcome' = "running"
                              /\ pc' = "loop"
                              /\ synced' = synced
    /\ UNCHANGED <<CurrentSwState, jira, run_id, id_to_ticket, store0, repeat>>
    /\ UNCHANGED chunkVars

\* Variant: the error is logged and the loop goes on with the next batch.
FetchFailSwallowed ==
    /\ pc = "loop"
    /\ queries' = Append(queries, [payload |-> Payload(Batches[batch_no + 1]),
                                 ok |-> FALSE, foreign |-> FALSE])
    /\ batch_no' = batch_no + 1
    /\ IF batch_no + 1 = Len(Batches)
       THEN /\ JiraStatus' = bulk_update(JiraStatus, to_update)
            /\ outcome' = "complete"
            /\ pc' = "returned"
       ELSE /\ JiraStatus' = JiraStatus
            /\ outcome' = "running"
            /\ pc' = "loop"
    /\ UNCHANGED <<CurrentSwState, jira, run_id, id_to_ticket,
                   to_create, to_update, store0, synced, repeat>>
    /\ UNCHANGED chunkVars

\* Lines 75-83 and 127-129: the call raises, the run aborts.
FetchFail ==
    /\ pc = "loop"
    /\ queries' = Append(queries, [payload |-> Payload(Batches[batch_no + 1]),
                                 ok |-> FALSE, foreign |-> FALSE])
    /\ batch_no' = batch_no + 1
    /\ outcome' = "raised"
    /\ pc' = "returned"
    /\ UNCHANGED <<CurrentSwState, JiraStatus, jira, run_id, id_to_ticket,
                   to_create, to_update, store0, synced, repeat>>
    /\ UNCHANGED chunkVars

\* The call is over (it returned or raised): its locals are gone, the
\* stores stay as it left them.
Return ==
    /\ pc = "returned"
    /\ pc' = "idle"
    /\ run_id' = 1
    /\ id_to_ticket' = <<>>
    /\ batch_no' = 0
    /\ to_create' = <<>>
    /\ to_update' = <<>>
    /\ queries' = <<>>
    /\ outcome' = "none"
    /\ store0' = JiraStatus
    /\ repeat' = FALSE
    /\ UNCHANGED <<CurrentSwState, JiraStatus, jira, synced>>
    /\ UNCHANGED chunkVars

\* The tracker's contents change between runs.
JiraChange ==
    /\ pc = "idle"
    /\ \E v \in JiraVersions \ {jira} : jira' = v
    /\ synced' = {}
    /\ UNCHANGED <<CurrentSwState, JiraStatus, pc, run_id, id_to_ticket, batch_no,
                   to_create, to_update, queries, outcome, store0, repeat>>
    /\ UNCHANGED chunkVars

IdleSync ==
    /\ JiraStatus = <<>>
    /\ jira = 1
    /\ pc = "idle"
    /\ run_id = 1
    /\ id_to_ticket = <<>>
    /\ batch_no = 0
    /\ to_create = <<>>
    /\ to_update = <<>>
    /\ queries = <<>>
    /\ outcome = "none"
    /\ store0 = <<>>
    /\ synced = {}
    /\ repeat = FALSE

IdleChunks ==
    /\ c_iterable = <<>>
    /\ c_size = 1
    /\ c_out = <<>>
    /\ c_done = FALSE

Init ==
    /\ \E layout \in Layouts :
          CurrentSwState = [i \in 1..layout[1] |-> TrackedRow(layout[2], layout[1], i)]
    /\ IdleSync
    /\ IdleChunks

Next ==
    \/ \E rid \in RunIds, url \in BaseUrls : Start(rid, url)
    \/ FetchOk
    \/ FetchFail
    \/ Return
    \/ JiraChange

Spec == Init /\ [][Next]_vars

-----------------------------------------------------------------------------
(* _chunks applied to bounded inputs *)

InitChunks ==
    /\ CurrentSwState = <<>>
    /\ IdleSync
    /\ c_iterable \in SeqsUpTo(ChunkKeys, MaxLen)
    /\ c_size \in 1..MaxSize
    /\ c_out = <<>>
    /\ c_done = FALSE

ApplyChunks ==
    /\ ~c_done
    /\ c_out' = _chunks(c_iterable, c_size)
    /\ c_done' = TRUE
    /\ UNCHANGED <<c_iterable, c_size>>
    /\ UNCHANGED syncVars

NextChunks == ApplyChunks

SpecChunks == InitChunks /\ [][NextChunks]_vars

-----------------------------------------------------------------------------
(* Properties *)

Upserted == to_create \o to_update

TicketOf(id) == strip(CurrentSwState[id].jira_ticket)

RowsOf(store, cve_id) == {store[i] : i \in {j \in 1..Len(store) : store[j].cve_id = cve_id}}

HasName(issue) == issue # Absent /\ issue # NoStatus

\* C1: for every key sequence and every size N >= 1 the batches _chunks
\* yields concatenate to the input, each batch is non-empty and has at most
\* N keys, and an empty input yields no batch.
ChunksPartition ==
    c_done =>
        /\ Concat(c_out) = c_iterable
        /\ \A i \in 1..Len(c_out) : Len(c_out[i]) >= 1 /\ Len(c_out[i]) <= c_size
        /\ (c_iterable = <<>> => c_out = <<>>)

ChunksPartitionWitness ==
    /\ c_done
    /\ Len(c_out) >= 2
    /\ Len(c_out[Len(c_out)]) < c_size

\* C2: when the fetch of batch k raises, the run ends raised with that call
\* as its last one, the calls made are those of batches 1..k, and every
\* status row created in the earlier batches is still in the store.
ErrorAborts ==
    \A i \in 1..Len(queries) :
        ~queries[i].ok =>
            /\ i = Len(queries)
            /\ outcome = "raised"
            /\ pc = "returned"
            /\ Len(queries) <= Len(Batches)
            /\ \A j \in 1..Len(queries) : queries[j].payload = Payload(Batches[j])
            /\ \A c \in 1..Len(to_create) : to_create[c] \in Range(JiraStatus)

ErrorAbortsWitness ==
    /\ outcome = "raised"
    /\ Len(Batches) = 3
    /\ Len(queries) = 2
    /\ ~queries[2].ok
    /\ to_create # <<>>

\* C3: after a run whose fetches all succeed, a record of the run whose key
\* was returned with a status has a status row holding that name, and a
\* record whose key was returned without a status field has the rows it
\* had before the run.
RunResult ==
    outcome = "complete" =>
        \A e \in 1..Len(id_to_ticket) :
            LET entry == id_to_ticket[e]
                issue == JiraIssue(jira, entry.ticket)
                rows == RowsOf(JiraStatus, entry.id)
            IN  /\ HasName(issue) =>
                       rows # {} /\ \A row \in rows : row.jira_status = issue
                /\ issue = NoStatus => rows = RowsOf(store0, entry.id)

RunResultWitness ==
    /\ outcome = "complete"
    /\ \E e \in 1..Len(id_to_ticket) :
          /\ JiraIssue(jira, id_to_ticket[e].ticket) = NoStatus
          /\ RowsOf(JiraStatus, id_to_ticket[e].id) = {}
    /\ \E e \in 1..Len(id_to_ticket) :
          /\ HasName(JiraIssue(jira, id_to_ticket[e].ticket))
          /\ RowsOf(JiraStatus, id_to_ticket[e].id) # {}

\* C4: a run that completes after a completed run of the same run id, with
\* the tracker unchanged in between, leaves the store as it found it,
\* creates no row and queues only rows that existed.
Idempotent ==
    (outcome = "complete" /\ repeat) =>
        /\ JiraStatus = store0
        /\ to_create = <<>>
        /\ \A u \in 1..Len(to_update) :
              \E row \in Range(store0) : row.id = to_update[u].id
                                         /\ row.cve_id = to_update[u].cve_id

IdempotentWitness ==
    /\ outcome = "complete"
    /\ repeat
    /\ Len(queries) >= 2
    /\ to_update # <<>>

\* C5: a record with a NULL or empty ticket is not in the mapping of the
\* run, the keys of the calls are the keys of the mapping's records in
\* order, and no status row of a record outside the mapping is created,
\* queued or changed.
ExcludedUntouched ==
    /\ \A e \in 1..Len(id_to_ticket) :
          LET state == CurrentSwState[id_to_ticket[e].id]
          IN  /\ state.run_id = run_id
              /\ state.jira_ticket # NULL
              /\ state.jira_ticket # EmptyTicket
              /\ id_to_ticket[e].ticket = strip(state.jira_ticket)
    /\ LET asked == Concat([q \in 1..Len(queries) |-> queries[q].payload.jql.keyIn])
       IN  /\ Len(asked) <= Len(id_to_ticket)
           /\ \A a \in 1..Len(asked) : asked[a] = id_to_ticket[a].ticket
    /\ \A u \in 1..Len(Upserted) :
          \E e \in 1..Len(id_to_ticket) : id_to_ticket[e].id = Upserted[u].cve_id
    /\ \A i \in 1..Len(CurrentSwState) :
          (\A e \in 1..Len(id_to_ticket) : id_to_ticket[e].id # i) =>
              RowsOf(JiraStatus, i) = RowsOf(store0, i)

ExcludedUntouchedWitness ==
    /\ outcome = "complete"
    /\ to_create # <<>>
    /\ \E i \in 1..Len(CurrentSwState) :
          /\ CurrentSwState[i].run_id = run_id
          /\ CurrentSwState[i].jira_ticket = EmptyTicket
    /\ \E i \in 1..Len(CurrentSwState) :
          /\ CurrentSwState[i].run_id = run_id
          /\ CurrentSwState[i].jira_ticket = NULL

\* C6: a completed run over n qualifying records has made ceil(n / 50)
\* calls, the i-th carrying the i-th run of 50 keys of the mapping, with
\* maxResults the number of keys it carries.
OneQueryPerBatch ==
    outcome = "complete" =>
        LET n == Len(id_to_ticket)
            keys == values(id_to_ticket)
        IN  /\ Len(queries) = (n + BATCH_SIZE - 1) \div BATCH_SIZE
            /\ \A q \in 1..Len(queries) :
                  /\ queries[q].payload.jql.keyIn =
                         SubSeq(keys, (q - 1) * BATCH_SIZE + 1, Min(q * BATCH_SIZE, n))
                  /\ queries[q].payload.maxResults = Len(queries[q].payload.jql.keyIn)

\* With MaxRecords = 120: three calls of 50, 50 and 20 keys.
OneQueryPerBatchWitness ==
    /\ outcome = "complete"
    /\ Len(id_to_ticket) = MaxRecords
    /\ Cardinality(Range(values(id_to_ticket))) = MaxRecords
    /\ Len(queries) = 3
    /\ queries[1].payload.maxResults = BATCH_SIZE
    /\ queries[2].payload.maxResults = BATCH_SIZE
    /\ queries[3].payload.maxResults = MaxRecords - 2 * BATCH_SIZE

\* C7: handling a batch upserts only records whose key is a key of that
\* batch.
ForeignKeyIgnored ==
    [][pc = "loop" =>
          LET batch == Batches[batch_no + 1]
              new == SubSeq(to_create', Len(to_create) + 1, Len(to_create'))
                     \o SubSeq(to_update', Len(to_update) + 1, Len(to_update'))
          IN  \A u \in 1..Len(new) : TicketOf(new[u].cve_id) \in Range(batch)]_vars

\* C8: during a run (here: one whose responses hold only the keys asked
\* for) no record is appended to to_create and to_update more than once in
\* total, whether or not records share a key.
UpsertedOnce ==
    (\A q \in 1..Len(queries) : ~queries[q].foreign) =>
        \A u, v \in 1..Len(Upserted) : Upserted[u].cve_id = Upserted[v].cve_id => u = v

\* C9: while a run is in its batch loop, and after a run that raised, every
\* status row that existed when the run started is in the store unchanged.
UpdatesDeferred ==
    (pc = "loop" \/ outcome = "raised") =>
        /\ Len(store0) <= Len(JiraStatus)
        /\ \A i \in 1..Len(store0) : JiraStatus[i] = store0[i]

UpdatesDeferredWitness ==
    /\ outcome = "raised"
    /\ Len(queries) >= 2
    /\ \E u \in 1..Len(to_update) :
          \E row \in Range(store0) : /\ row.id = to_update[u].id
                                     /\ row.jira_status # to_update[u].jira_status
                                     /\ row \in Range(JiraStatus)

\* C10: the store never holds two status rows of one tracked record, and
\* every row that existed when a run started still exists.
OneRowPerOwner ==
    /\ \A i, j \in 1..Len(JiraStatus) :
          JiraStatus[i].cve_id = JiraStatus[j].cve_id => i = j
    /\ \A i \in 1..Len(store0) :
          \E j \in 1..Len(JiraStatus) : /\ JiraStatus[j].id = store0[i].id
                                        /\ JiraStatus[j].cve_id = store0[i].cve_id

OneRowPerOwnerWitness ==
    /\ outcome = "complete"
    /\ to_update # <<>>
    /\ \E row \in Range(JiraStatus) : CurrentSwState[row.cve_id].run_id # run_id
    /\ \E row \in Range(store0) : row \notin Range(JiraStatus)

====
